---- MODULE Spec2Model ----
(***************************************************************************)
(* Media acquisition and caching pipeline of the SoundCloud TUI player     *)
(* (src/main.py): AudioCache with its eviction, the download orchestrator  *)
(* download_track_fast / download_stream / download_via_ytdlp, the         *)
(* PrefetchManager and the part of Player that loads files into the audio  *)
(* device, together with its polling loop, its pause, next and previous    *)
(* actions, its input handler and its history view.                        *)
(*                                                                         *)
(* Conventions.                                                            *)
(*  - A track reference (URL) is a number in Refs.  The path of its cache  *)
(*    file, CACHE_DIR/<md5(url)>.mp3, is determined by the URL, so a path  *)
(*    is named by the URL too; 0 stands for None.                          *)
(*  - time.time() is the variable now, which only the environment action   *)
(*    Tick advances.                                                       *)
(*  - A score timestamp/(access_count+1) is compared exactly, by cross     *)
(*    multiplication.                                                      *)
(*  - The deque lru and the set lru_set of AudioCache are written but      *)
(*    never read by any decision of the program; they are not modelled.    *)
(*  - The history file is written through append_history_item and read by  *)
(*    the history view alone; no decision of the cache, of the downloads   *)
(*    or of the player reads it.  append_history_item is followed in       *)
(*    SpecHistory, and the other specifications leave the list aside.      *)
(*  - The three counters of Player.stats are only counted up and shown.    *)
(*    They are kept as one number, total_downloads - cache_hits -          *)
(*    cache_misses, so that the plays that count on both sides, which are  *)
(*    unbounded in number, do not change it.                               *)
(*  - Player.history is the list load_history() returned when the player   *)
(*    was constructed, kept by the URLs of its entries; the program never  *)
(*    reloads it.                                                          *)
(*  - A track without URL has the URL None.                                *)
(***************************************************************************)
EXTENDS Integers, Sequences, FiniteSets, TLC

(* ------------------------------ bounds --------------------------------- *)
NRefs == 3          \* number of distinct track references
MaxSize == 3        \* AudioCache.max_size, in size units
StartTime == 4      \* value of time.time() when the program starts
MaxTicks == 2       \* how often the clock advances
MaxCount == 2       \* cap of access_count
NChunks == 2        \* chunks of a streamed body
QLen == 2           \* tracks a search returns
MaxQueue == 5       \* tracks a long search returns
MaxItems == 2       \* items of an index file found at the start
MaxHistory == 3     \* the cap of the history, hist[:1000]
MaxUncounted == 2   \* plays of a track without URL that are followed

PrefetchCount == 3  \* PrefetchManager(prefetch_count=3)
PlayTask == 0       \* the task running Player._play_index for the user
PollTask == 0 - 1   \* the task running Player._update_track_progress
NoIndex == 0 - 1    \* no queue index

Refs == 1..NRefs

\* every URL the program meets: the tracks of the longest queue
Urls == 1..MaxQueue

\* the sizes of the files a sequential fetch may produce: small, all but
\* filling the cache, and larger than the cache
FileSizes == {1, MaxSize - 1, MaxSize + 1}
None == 0

(* ------------------------------ state ---------------------------------- *)
VARIABLES
  cache_info,   \* AudioCache.cache_info: url -> [size, timestamp, access_count]
  disk,         \* the files of CACHE_DIR: url -> [exists, size, parts]
  now,          \* time.time()
  mixer_file,   \* the path loaded in mixer.music, or None
  queue,        \* Player.queue: the URLs of its tracks
  current_idx,  \* Player.current_idx
  task,         \* the coroutines: PlayTask, and the prefetch task of queue index i
  zombies,      \* URLs whose yt-dlp thread outlived its cancelled coroutine
  mixer_state,  \* mixer.music: "stopped", "playing" or "paused"
  is_paused,    \* Player.is_paused
  status,       \* what the #status widget shows
  returned,     \* observation: URLs a fetch returned a file for, no eviction since
  ev,           \* observation: what the cache calls of the last step did
  fr,           \* observation: the fetch that returned in the last step
  step,         \* observation: what the player did in the last step
  index_file,   \* the content of CACHE_INFO_FILE (cache_info.json)
  clearing,     \* an action_clear_cache sleeps before its last status update
  history,      \* the list append_history_item loads, changes and saves
  history_mode, \* Player.history_mode
  saved_queue,  \* Player._saved_queue; <<>> stands for None too
  searching,    \* a handle_input waits for its search or its track information
  player_history, \* Player.history: the URLs of the entries load_history() returned
  stats         \* Player.stats: total_downloads - cache_hits - cache_misses

vars == <<cache_info, disk, now, mixer_file, queue, current_idx, task, zombies,
          mixer_state, is_paused, status, returned, ev, fr, step, index_file,
          clearing, history, history_mode, saved_queue, searching,
          player_history, stats>>

\* what the history view and the search in progress are made of
viewVars == <<history_mode, saved_queue, searching, player_history>>

\* the variables the cache alone does not touch
playerVars == <<queue, viewVars, current_idx, stats, task, zombies, returned, fr,
                step, clearing, history>>

\* the state of the audio device and of the display
deviceVars == <<mixer_file, mixer_state, is_paused, status>>

NoFile == [exists |-> FALSE, size |-> 0, parts |-> {}]
WholeFile(s) == [exists |-> TRUE, size |-> s, parts |-> 1..NChunks]
IsComplete(f) == f.exists /\ f.parts = 1..NChunks

\* op: the cache call made ("insert", "lookup", "none"); url, size, file: the
\* reference and the file handed to add_to_cache; log: the entries
\* _cleanup_cache evicted, in order; failed: the entries whose unlink raised;
\* ret: what get_cached_file returned; purged: get_cached_file deleted the
\* entry of the url, whose file was missing
NoEvent == [op |-> "none", url |-> None, size |-> 0, file |-> NoFile,
            log |-> <<>>, failed |-> {}, ret |-> None, purged |-> FALSE]

\* a coroutine: where it stands (pc), the URL it fetches, the chunks its file
\* handle has written (off), whether that handle still is the file at the
\* path (att), how its direct stream failed: "no", "connect", "midway" (fb),
\* the idx _play_index was called with (idx) and the value current_idx had
\* before the handler that called it changed it (from)
Tasks == PollTask..(MaxQueue - 1)
PlayTasks == {PlayTask, PollTask}
PrefetchIds == Tasks \ PlayTasks
Idle == [pc |-> "idle", url |-> None, off |-> 0, att |-> FALSE, fb |-> "no",
         idx |-> NoIndex, from |-> NoIndex]

NoTask == 0 - 2

\* task: the coroutine; url: what it fetched; ret: the path download_track_fast
\* returned, or None; fb: how its direct stream had failed
NoReturn == [task |-> NoTask, url |-> None, ret |-> None, fb |-> "no"]

\* poll: the step was an iteration of the loop of _update_track_progress;
\* pos: the current_idx prefetch_tracks was called with in the step, if it was;
\* noresult: handle_input found nothing for the input in the step
NoStep == [poll |-> FALSE, pos |-> NoIndex, noresult |-> FALSE]

(* ------------------------------ AudioCache ----------------------------- *)
\* hashlib.md5(url).hexdigest(): an injective scrambling of the URLs, whose
\* order is unrelated to the order of the URLs.
GetCacheKey(u) == (u * 7) % 11

Range(s) == {s[i] : i \in 1..Len(s)}

RECURSIVE SumSizes(_, _)
SumSizes(info, S) ==
  IF S = {} THEN 0
  ELSE LET k == CHOOSE x \in S : TRUE
       IN info[k].size + SumSizes(info, S \ {k})

\* sum(info.size for info in self.cache_info.values())
CurrentSize(info) == SumSizes(info, DOMAIN info)

\* score = info.timestamp / (info.access_count + 1), compared exactly
ScoreLess(a, b) == a.timestamp * (b.access_count + 1) < b.timestamp * (a.access_count + 1)
ScoreEq(a, b) == a.timestamp * (b.access_count + 1) = b.timestamp * (a.access_count + 1)

\* the heap ordered by the time of the last access alone
HeapLessByTime(info, j, k) ==
  \/ info[j].timestamp < info[k].timestamp
  \/ info[j].timestamp = info[k].timestamp /\ GetCacheKey(j) < GetCacheKey(k)

\* the order of the heap items (score, key, info): Python compares the tuples
\* by score and then by key
HeapLess(info, j, k) ==
  \/ ScoreLess(info[j], info[k])
  \/ ScoreEq(info[j], info[k]) /\ GetCacheKey(j) < GetCacheKey(k)

\* heapq.heappop
HeapPop(info, heap) == CHOOSE k \in heap : \A j \in heap \ {k} : HeapLess(info, k, j)

\* the while loop of _cleanup_cache.  locked: the paths whose unlink raises;
\* such an entry is popped, its exception swallowed, and it stays in the index.
RECURSIVE CleanupLoop(_, _, _, _, _, _, _, _)
CleanupLoop(heap, info, dsk, cur, required, locked, log, failed) ==
  IF heap = {} \/ ~(cur + required > MaxSize)
  THEN [info |-> info, disk |-> dsk, log |-> log, failed |-> failed]
  ELSE LET k == HeapPop(info, heap)
       IN IF dsk[k].exists /\ k \in locked
          THEN CleanupLoop(heap \ {k}, info, dsk, cur, required, locked, log,
                           failed \cup {k})
          ELSE CleanupLoop(heap \ {k},
                           [x \in DOMAIN info \ {k} |-> info[x]],
                           [dsk EXCEPT ![k] = NoFile],
                           cur - info[k].size, required, locked,
                           Append(log, k), failed)

\* _cleanup_cache with the size of the new file left out of the loop's test
CleanupCacheNoRequired(info, dsk, required, locked) ==
  CleanupLoop(DOMAIN info, info, dsk, CurrentSize(info), 0, locked, <<>>, {})

\* _cleanup_cache with an if in the place of its while: one eviction at most
CleanupCacheOnce(info, dsk, required, locked) ==
  CleanupLoop(IF DOMAIN info = {} THEN {} ELSE {HeapPop(info, DOMAIN info)},
              info, dsk, CurrentSize(info), required, locked, <<>>, {})

\* _cleanup_cache whose loop goes on until no entry is left to pop
CleanupCacheAll(info, dsk, required, locked) ==
  CleanupLoop(DOMAIN info, info, dsk, CurrentSize(info), MaxSize + 1, locked, <<>>, {})

\* AudioCache._cleanup_cache(required_size)
CleanupCache(info, dsk, required, locked) ==
  CleanupLoop(DOMAIN info, info, dsk, CurrentSize(info), required, locked, <<>>, {})

\* AudioCache.add_to_cache(url, filepath), with filepath the cache path of url
AddToCache(u, info, dsk, t, locked) ==
  IF ~dsk[u].exists
  THEN [info |-> info, disk |-> dsk, ev |-> NoEvent]
  ELSE LET size == dsk[u].size
           c == CleanupCache(info, dsk, size, locked)
           entry == [size |-> size, timestamp |-> t, access_count |-> 1]
       IN [info |-> (u :> entry) @@ c.info,
           disk |-> c.disk,
           ev |-> [op |-> "insert", url |-> u, size |-> size, file |-> dsk[u],
                   log |-> c.log, failed |-> c.failed, ret |-> None,
                   purged |-> FALSE]]

\* get_cached_file that leaves the entry of a missing file in the index
GetCachedFileKeepsStale(u, info, dsk, t) ==
  IF u \in DOMAIN info
  THEN IF dsk[u].exists
       THEN [info |-> [info EXCEPT ![u].access_count = @ + 1, ![u].timestamp = t],
             ret |-> u, purged |-> FALSE]
       ELSE [info |-> info, ret |-> None, purged |-> TRUE]
  ELSE [info |-> info, ret |-> None, purged |-> FALSE]

\* get_cached_file that returns the path of the file it finds without
\* counting the access
GetCachedFileNoCount(u, info, dsk, t) ==
  IF u \in DOMAIN info
  THEN IF dsk[u].exists
       THEN [info |-> [info EXCEPT ![u].timestamp = t], ret |-> u,
             purged |-> FALSE]
       ELSE [info |-> [x \in DOMAIN info \ {u} |-> info[x]], ret |-> None,
             purged |-> TRUE]
  ELSE [info |-> info, ret |-> None, purged |-> FALSE]

\* AudioCache.get_cached_file(url): ret is the path returned, or None; purged
\* tells that the else branch of lines 143-146 ran
GetCachedFile(u, info, dsk, t) ==
  IF u \in DOMAIN info
  THEN IF dsk[u].exists
       THEN [info |-> [info EXCEPT ![u].access_count = @ + 1, ![u].timestamp = t],
             ret |-> u, purged |-> FALSE]
       ELSE [info |-> [x \in DOMAIN info \ {u} |-> info[x]], ret |-> None,
             purged |-> TRUE]
  ELSE [info |-> info, ret |-> None, purged |-> FALSE]

\* a lookup that would push access_count over the cap is not taken
CanAccess(u) == u \in DOMAIN cache_info => cache_info[u].access_count < MaxCount

\* the paths whose unlink may raise: the file the audio device holds open can
\* not be removed on a platform that forbids unlinking an open file (Windows),
\* and can on the others
LockChoices ==
  IF mixer_file # None /\ disk[mixer_file].exists THEN {{}, {mixer_file}} ELSE {{}}

(* ------------------------- the persisted index ------------------------ *)
\* CacheInfo.to_dict: the item of an entry in the file.  An item is kept by
\* its url and its size; the timestamp and the access_count written with it
\* are the ones of the moment of the save, and the file does not follow the
\* later changes of them in memory.  missing names what a file item lacks:
\* "none", "access_count", or "required" for one of the keys from_dict
\* subscripts; to_dict writes every key
ToDict(u, e) == [url |-> u, size |-> e.size, missing |-> "none"]

\* the items of the dict comprehension of save_cache_info; the order of the
\* items of a file whose items are all complete makes no difference to
\* load_cache_info, and they are listed by key
RECURSIVE DumpItems(_, _)
DumpItems(info, S) ==
  IF S = {} THEN <<>>
  ELSE LET k == CHOOSE x \in S : \A y \in S \ {x} : GetCacheKey(x) < GetCacheKey(y)
       IN <<ToDict(k, info[k])>> \o DumpItems(info, S \ {k})

\* the file save_cache_info() leaves when it runs to its end.  whole: the text
\* of the file is a JSON document
SaveCacheInfo(info) == [whole |-> TRUE, items |-> DumpItems(info, DOMAIN info)]

\* the file open(CACHE_INFO_FILE, 'w') leaves when json.dump does not run to
\* its end: a text cut short, which json.load rejects
Truncated == [whole |-> FALSE, items |-> <<>>]

\* CacheInfo.from_dict: data.get('access_count', 0).  was: the timestamp and
\* the access_count the item was written with
FromDict(d, was) ==
  [size |-> d.size, timestamp |-> was.timestamp,
   access_count |-> IF d.missing = "access_count" THEN 0 ELSE was.access_count]

\* the for loop of load_cache_info: the entries are put into self.cache_info
\* one by one, and the KeyError of from_dict ends the loop
RECURSIVE LoadItems(_, _, _)
LoadItems(items, info, was) ==
  IF items = <<>> \/ Head(items).missing = "required" THEN info
  ELSE LoadItems(Tail(items),
                 (Head(items).url :> FromDict(Head(items), was[Head(items).url]))
                    @@ info,
                 was)

\* AudioCache.load_cache_info(): self.cache_info after it, from the empty dict
LoadCacheInfo(f, was) == IF f.whole THEN LoadItems(f.items, <<>>, was) ELSE <<>>

\* save_cache_info() is the last statement of every call that changes the
\* entries of the index (get_cached_file line 146, _cleanup_cache line 216,
\* add_to_cache line 178) and of no other: a lookup that finds its file
\* changes access_count and timestamp in memory alone
SaveIndex ==
  index_file' = IF ev'.op = "insert" \/ DOMAIN cache_info' # DOMAIN cache_info
                THEN SaveCacheInfo(cache_info')
                ELSE index_file

(* ------------------------------ initial state -------------------------- *)
Init ==
  /\ index_file = SaveCacheInfo(<<>>)
  /\ clearing = FALSE
  /\ history = <<>>
  /\ cache_info = <<>>
  /\ disk = [u \in Urls |-> NoFile]
  /\ now = StartTime
  /\ mixer_file = None
  /\ queue = <<>>
  /\ history_mode = FALSE
  /\ saved_queue = <<>>
  /\ searching = FALSE
  /\ player_history = <<>>
  /\ stats = 0
  /\ current_idx = 0
  /\ task = [t \in Tasks |-> Idle]
  /\ zombies = {}
  /\ mixer_state = "stopped"
  /\ is_paused = FALSE
  /\ status = "idle"
  /\ returned = {}
  /\ ev = NoEvent
  /\ fr = NoReturn
  /\ step = NoStep

\* the clock advances
Tick ==
  /\ now < StartTime + MaxTicks
  /\ now' = now + 1
  /\ ev' = NoEvent
  /\ UNCHANGED index_file
  /\ fr' = NoReturn
  /\ UNCHANGED <<clearing, history>>
  /\ step' = NoStep
  /\ UNCHANGED <<cache_info, disk, queue, viewVars, current_idx, stats, task,
                 zombies, returned>>
  /\ UNCHANGED deviceVars

(* ---------------- the cache used by one task at a time ------------------ *)
\* download_track_fast(url) on a reference whose lookup returns a file
SeqLookup(u) ==
  /\ CanAccess(u)
  /\ LET g == GetCachedFile(u, cache_info, disk, now)
     IN /\ g.ret # None
        /\ cache_info' = g.info
        /\ ev' = [NoEvent EXCEPT !.op = "lookup", !.url = u, !.ret = g.ret]
        /\ SaveIndex
  /\ UNCHANGED <<disk, now>>
  /\ UNCHANGED deviceVars
  /\ UNCHANGED playerVars

\* download_track_fast(url) run to its end with nothing interleaved and no
\* failure: a miss, a download that writes a file of size s, add_to_cache
SeqFetch(u, s, locked) ==
  /\ LET g == GetCachedFile(u, cache_info, disk, now)
     IN /\ g.ret = None
        /\ ~disk[u].exists
        /\ LET a == AddToCache(u, g.info, [disk EXCEPT ![u] = WholeFile(s)],
                               now, locked)
           IN /\ cache_info' = a.info
              /\ disk' = a.disk
              /\ ev' = a.ev
              /\ SaveIndex
  /\ UNCHANGED now
  /\ UNCHANGED deviceVars
  /\ UNCHANGED playerVars

\* _play_index on a cache hit: the file found is loaded into the device
SeqPlay(u) ==
  /\ CanAccess(u)
  /\ LET g == GetCachedFile(u, cache_info, disk, now)
     IN /\ g.ret # None
        /\ cache_info' = g.info
        /\ mixer_file' = g.ret
        /\ mixer_state' = "playing"
        /\ is_paused' = FALSE
        /\ status' = "playing"
        /\ ev' = [NoEvent EXCEPT !.op = "lookup", !.url = u, !.ret = g.ret]
        /\ SaveIndex
  /\ UNCHANGED <<disk, now>>
  /\ UNCHANGED playerVars

NextCache ==
  \/ Tick
  \/ \E u \in Refs : SeqLookup(u)
  \/ \E u \in Refs, s \in FileSizes, locked \in LockChoices : SeqFetch(u, s, locked)
  \/ \E u \in Refs : SeqPlay(u)

SpecCache == Init /\ [][NextCache]_vars

(* ------------------- the coroutines of the running program -------------- *)
\* the n tracks a search returns (search_tracks_fast): distinct URLs
SearchResults(n) == [i \in 1..n |-> i]

\* self.queue[idx].get("url"), idx counted from 0
Track(q, idx) == q[idx + 1]

\* the size of the audio of a reference (the body's content-length): two
\* tracks do not fit into the cache together
TrackSize(u) == (MaxSize + 2) \div 2

\* the size of a file holding the chunks up to the j-th
ChunkEnd(u, j) == (TrackSize(u) * j + NChunks - 1) \div NChunks

Max(a, b) == IF a > b THEN a ELSE b
Min(a, b) == IF a < b THEN a ELSE b

\* the file handles open for writing on a path that is unlinked or replaced
\* keep writing to the removed file, not to the path
Detach(tk, gone) ==
  [t \in Tasks |-> IF tk[t].pc = "write" /\ tk[t].url \in gone
                   THEN [tk[t] EXCEPT !.att = FALSE]
                   ELSE tk[t]]

\* prefetch_tracks with range(start_idx, end_idx + 1)
PrefetchTargetsOneMore(q, idx) ==
  LET start_idx == idx + 1
      end_idx == Min(start_idx + PrefetchCount, Len(q) - 1)
  IN {i \in start_idx..end_idx :
        /\ Track(q, i) # None
        /\ \A j \in start_idx..(i - 1) : Track(q, j) # Track(q, i)}

\* the queue indices prefetch_tracks starts a task for: range(start_idx,
\* end_idx), one task per URL (current_prefetching), none for a track
\* without URL
PrefetchTargets(q, idx) ==
  LET start_idx == idx + 1
      end_idx == Min(start_idx + PrefetchCount, Len(q))
  IN {i \in start_idx..(end_idx - 1) :
        /\ Track(q, i) # None
        /\ \A j \in start_idx..(i - 1) : Track(q, j) # Track(q, i)}

\* PrefetchManager.prefetch_tracks(tracks, current_idx): every prefetch task
\* is cancelled, and a new one is created for each target
PrefetchTracks(tk, q, idx) ==
  [t \in Tasks |->
     IF t \in PlayTasks THEN tk[t]
     ELSE IF t \in PrefetchTargets(q, idx)
          THEN [Idle EXCEPT !.pc = "start", !.url = Track(q, t), !.idx = t]
          ELSE Idle]

\* a cancelled coroutine that waits for its yt-dlp thread leaves the thread
\* running (run_in_executor)
CancelledThreads(tk) ==
  {tk[t].url : t \in {x \in PrefetchIds : tk[x].pc = "ytdlp"}}

\* mixer.music.load(filename): a missing file is rejected, a complete one is
\* accepted, a truncated one is either
LoadOutcomes(f) ==
  IF ~f.exists THEN {FALSE} ELSE IF IsComplete(f) THEN {TRUE} ELSE {TRUE, FALSE}

\* the index prefetch_tracks is called with once the file plays: the idx of
\* _play_index, and self.current_idx in _play_direct, which has no idx
PrefetchFrom(idx) == IF idx = NoIndex THEN current_idx ELSE idx

\* mixer.music.stop() is called before the load: by _play_index if
\* get_busy(), by _play_direct if self.current_file, which is set from the
\* first load on (until a file was loaded there is nothing to stop)
Stops(idx) ==
  IF idx = NoIndex THEN mixer_file # None ELSE mixer_state = "playing"

\* _play_index that loads the file without stopping the track that plays
PlayLoadedNoStop(t, r, info, dsk, e, tk, rec, q, idx, poll) ==
  /\ cache_info' = info
  /\ disk' = dsk
  /\ ev' = e
  /\ SaveIndex
  /\ fr' = rec
  /\ UNCHANGED <<clearing, history>>
  /\ IF r = None
     THEN /\ task' = [tk EXCEPT ![t] = Idle]
          /\ status' = "failed"
          /\ step' = [poll |-> poll, pos |-> NoIndex, noresult |-> FALSE]
          /\ UNCHANGED <<mixer_file, mixer_state, zombies>>
     ELSE \E ok \in LoadOutcomes(dsk[r]) :
            IF ok
            THEN /\ mixer_file' = r
                 /\ mixer_state' = "playing"
                 /\ status' = "playing"
                 /\ IF idx = NoIndex /\ q = <<>>
                    THEN /\ task' = [tk EXCEPT ![t] = Idle]
                         /\ step' = [poll |-> poll, pos |-> NoIndex,
                                     noresult |-> FALSE]
                         /\ UNCHANGED zombies
                    ELSE /\ task' = PrefetchTracks([tk EXCEPT ![t] = Idle], q,
                                                   PrefetchFrom(idx))
                         /\ zombies' = zombies \cup CancelledThreads(tk)
                         /\ step' = [poll |-> poll, pos |-> PrefetchFrom(idx),
                                     noresult |-> FALSE]
            ELSE /\ task' = [tk EXCEPT ![t] = Idle]
                 /\ mixer_state' = mixer_state
                 /\ status' = "failed"
                 /\ step' = [poll |-> poll, pos |-> NoIndex, noresult |-> FALSE]
                 /\ UNCHANGED <<mixer_file, zombies>>

\* _play_index(idx) of the coroutine t from the point where filename is known
\* (lines 1073-1105): r is the filename, (info, dsk, e) the cache the step
\* leaves, poll whether the step is an iteration of the polling loop.  With
\* NoIndex for idx it is _play_direct from the same point (lines 1006-1039),
\* which calls prefetch_tracks only if the queue is not empty
PlayLoaded(t, r, info, dsk, e, tk, rec, q, idx, poll) ==
  /\ cache_info' = info
  /\ disk' = dsk
  /\ ev' = e
  /\ SaveIndex
  /\ fr' = rec
  /\ UNCHANGED <<clearing, history>>
  /\ IF r = None
     THEN /\ task' = [tk EXCEPT ![t] = Idle]
          /\ status' = "failed"
          /\ step' = [poll |-> poll, pos |-> NoIndex, noresult |-> FALSE]
          /\ UNCHANGED <<mixer_file, mixer_state, zombies>>
     ELSE \E ok \in LoadOutcomes(dsk[r]) :
            IF ok
            THEN /\ mixer_file' = r
                 /\ mixer_state' = "playing"
                 /\ status' = "playing"
                 /\ IF idx = NoIndex /\ q = <<>>
                    THEN /\ task' = [tk EXCEPT ![t] = Idle]
                         /\ step' = [poll |-> poll, pos |-> NoIndex,
                                     noresult |-> FALSE]
                         /\ UNCHANGED zombies
                    ELSE /\ task' = PrefetchTracks([tk EXCEPT ![t] = Idle], q,
                                                   PrefetchFrom(idx))
                         /\ zombies' = zombies \cup CancelledThreads(tk)
                         /\ step' = [poll |-> poll, pos |-> PrefetchFrom(idx),
                                     noresult |-> FALSE]
            ELSE /\ task' = [tk EXCEPT ![t] = Idle]
                 /\ mixer_state' = (IF Stops(idx) THEN "stopped" ELSE mixer_state)
                 /\ status' = "failed"
                 /\ step' = [poll |-> poll, pos |-> NoIndex, noresult |-> FALSE]
                 /\ UNCHANGED <<mixer_file, zombies>>

\* every coroutine goes on with the file as _play_index does
ReturnToPlayer(t, u, r, fbv, info, dsk, e, tk) ==
  LET rec == [task |-> t, url |-> u, ret |-> r, fb |-> fbv]
  IN /\ returned' = (IF e.log # <<>> THEN {} ELSE returned)
                      \cup (IF r = None THEN {} ELSE {r})
     /\ PlayLoaded(t, r, info, dsk, e, tk, rec, queue, tk[t].idx, FALSE)
     /\ UNCHANGED <<now, queue, viewVars, current_idx, stats, is_paused>>

\* download_track_fast returns r to its caller: _play_index goes on with it,
\* _prefetch_track ends
Return(t, u, r, fbv, info, dsk, e, tk) ==
  LET rec == [task |-> t, url |-> u, ret |-> r, fb |-> fbv]
  IN /\ returned' = (IF e.log # <<>> THEN {} ELSE returned)
                      \cup (IF r = None THEN {} ELSE {r})
     /\ IF t \in PlayTasks
        THEN PlayLoaded(t, r, info, dsk, e, tk, rec, queue, tk[t].idx, FALSE)
        ELSE /\ cache_info' = info
             /\ disk' = dsk
             /\ ev' = e
             /\ SaveIndex
             /\ fr' = rec
             /\ UNCHANGED <<clearing, history>>
             /\ step' = NoStep
             /\ task' = [tk EXCEPT ![t] = Idle]
             /\ UNCHANGED <<mixer_file, mixer_state, status, zombies>>
     /\ UNCHANGED <<now, queue, viewVars, current_idx, stats, is_paused>>

\* the coroutine t waits: the step ends with t at pc
Await(t, rec, info, dsk, e) ==
  /\ task' = [task EXCEPT ![t] = rec]
  /\ cache_info' = info
  /\ disk' = dsk
  /\ ev' = e
  /\ SaveIndex
  /\ fr' = NoReturn
  /\ UNCHANGED <<clearing, history>>
  /\ step' = NoStep
  /\ UNCHANGED <<now, queue, viewVars, current_idx, stats, zombies, returned>>
  /\ UNCHANGED deviceVars

\* download_via_ytdlp(url, info) up to its first await: a file already at the
\* path is returned as it is
DownloadViaYtdlp(t, u, fbv) ==
  IF disk[u].exists
  THEN Return(t, u, u, fbv, cache_info, disk, NoEvent, task)
  ELSE Await(t, [task[t] EXCEPT !.pc = "ytdlp", !.off = 0, !.att = FALSE,
                                !.fb = fbv],
             cache_info, disk, NoEvent)

\* download_stream(stream_url, original_url, info) up to its first await
DownloadStream(t, u) ==
  IF disk[u].exists
  THEN Return(t, u, u, "no", cache_info, disk, NoEvent, task)
  ELSE Await(t, [task[t] EXCEPT !.pc = "get"], cache_info, disk, NoEvent)

\* _prefetch_track(url) up to its first await: a lookup, and on a miss
\* download_track_fast, which looks up again and then waits for get_stream_url
PrefetchStart(t) ==
  /\ t \in PrefetchIds
  /\ task[t].pc = "start"
  /\ CanAccess(task[t].url)
  /\ LET u == task[t].url
         g1 == GetCachedFile(u, cache_info, disk, now)
         g2 == GetCachedFile(u, g1.info, disk, now)
         look(r) == [NoEvent EXCEPT !.op = "lookup", !.url = u, !.ret = r,
                                    !.purged = g1.purged]
     IN IF g1.ret # None
        THEN /\ task' = [task EXCEPT ![t] = Idle]
             /\ cache_info' = g1.info
             /\ ev' = look(g1.ret)
             /\ SaveIndex
             /\ fr' = NoReturn
             /\ UNCHANGED <<clearing, history>>
             /\ step' = NoStep
             /\ UNCHANGED <<disk, now, queue, viewVars, current_idx, stats,
                            zombies, returned>>
             /\ UNCHANGED deviceVars
        ELSE IF g2.ret # None
        THEN Return(t, u, g2.ret, "no", g2.info, disk, look(g2.ret), task)
        ELSE Await(t, [task[t] EXCEPT !.pc = "resolve"], g2.info, disk,
                   look(None))

\* get_stream_url returns: nothing ("none"), a direct stream URL ("stream") or
\* the information for a managed download only ("managed")
Resolve(t, o) ==
  /\ task[t].pc = "resolve"
  /\ LET u == task[t].url
     IN CASE o = "none" -> Return(t, u, None, "no", cache_info, disk, NoEvent, task)
          [] o = "stream" -> DownloadStream(t, u)
          [] o = "managed" -> DownloadViaYtdlp(t, u, "no")

\* session.get returns: it raises ("raise"), answers with another status than
\* 200 ("status"), or answers 200 and the cache file is opened with 'wb' ("ok")
Get(t, o) ==
  /\ task[t].pc = "get"
  /\ LET u == task[t].url
     IN CASE o = "raise" -> DownloadViaYtdlp(t, u, "connect")
          [] o = "status" -> Return(t, u, None, "no", cache_info, disk, NoEvent, task)
          [] o = "ok" ->
               Await(t, [task[t] EXCEPT !.pc = "write", !.att = TRUE],
                     cache_info,
                     [disk EXCEPT ![u] = [exists |-> TRUE, size |-> 0, parts |-> {}]],
                     NoEvent)

\* one chunk of the body is written through the handle of t
Write(t) ==
  /\ task[t].pc = "write"
  /\ task[t].off < NChunks
  /\ LET u == task[t].url
         j == task[t].off + 1
         f == disk[u]
     IN Await(t, [task[t] EXCEPT !.off = j], cache_info,
              IF task[t].att
              THEN [disk EXCEPT ![u] = [exists |-> TRUE,
                                        size |-> Max(f.size, ChunkEnd(u, j)),
                                        parts |-> f.parts \cup {j}]]
              ELSE disk,
              NoEvent)

\* download_stream that starts over with session.get when the transfer
\* aborts, in the place of raising
WriteAbortRetries(t) ==
  /\ task[t].pc = "write"
  /\ task[t].off < NChunks
  /\ Await(t, [task[t] EXCEPT !.pc = "get", !.off = 0, !.att = FALSE],
           cache_info, disk, NoEvent)

\* the transfer aborts before the body is complete: download_stream raises,
\* and download_track_fast goes on with download_via_ytdlp
WriteAbort(t) ==
  /\ task[t].pc = "write"
  /\ task[t].off < NChunks
  /\ DownloadViaYtdlp(t, task[t].url, "midway")

\* the body is complete: add_to_cache, and the path is returned
WriteDone(t, locked) ==
  /\ task[t].pc = "write"
  /\ task[t].off = NChunks
  /\ LET u == task[t].url
         a == AddToCache(u, cache_info, disk, now, locked)
     IN Return(t, u, u, "no", a.info, a.disk, a.ev, Detach(task, Range(a.ev.log)))

\* the yt-dlp thread of t ends (download_via_ytdlp_sync): with the complete
\* file at the path, or with None, which download_via_ytdlp returns
YtdlpThread(t, ok) ==
  /\ task[t].pc = "ytdlp"
  /\ LET u == task[t].url
     IN IF ok
        THEN /\ task' = [Detach(task, {u}) EXCEPT ![t].pc = "ytdlp_ok"]
             /\ disk' = [disk EXCEPT ![u] = WholeFile(TrackSize(u))]
             /\ ev' = NoEvent
             /\ UNCHANGED index_file
             /\ fr' = NoReturn
             /\ UNCHANGED <<clearing, history>>
             /\ step' = NoStep
             /\ UNCHANGED <<cache_info, now, queue, viewVars, current_idx,
                            stats, zombies, returned>>
             /\ UNCHANGED deviceVars
        ELSE Return(t, u, None, task[t].fb, cache_info, disk, NoEvent, task)

\* download_via_ytdlp that returns None when add_to_cache added no entry
YtdlpResumeNeedsEntry(t, locked) ==
  /\ task[t].pc = "ytdlp_ok"
  /\ LET u == task[t].url
         a == AddToCache(u, cache_info, disk, now, locked)
     IN Return(t, u, IF a.ev.op = "insert" THEN u ELSE None, task[t].fb,
               a.info, a.disk, a.ev, Detach(task, Range(a.ev.log)))

\* download_via_ytdlp resumes with result_file: add_to_cache, and the path is
\* returned
YtdlpResume(t, locked) ==
  /\ task[t].pc = "ytdlp_ok"
  /\ LET u == task[t].url
         a == AddToCache(u, cache_info, disk, now, locked)
     IN Return(t, u, u, task[t].fb, a.info, a.disk, a.ev,
               Detach(task, Range(a.ev.log)))

\* a yt-dlp thread whose coroutine was cancelled ends
ZombieThread(u, ok) ==
  /\ u \in zombies
  /\ zombies' = zombies \ {u}
  /\ disk' = IF ok THEN [disk EXCEPT ![u] = WholeFile(TrackSize(u))] ELSE disk
  /\ task' = IF ok THEN Detach(task, {u}) ELSE task
  /\ ev' = NoEvent
  /\ UNCHANGED index_file
  /\ fr' = NoReturn
  /\ UNCHANGED <<clearing, history>>
  /\ step' = NoStep
  /\ UNCHANGED <<cache_info, now, queue, viewVars, current_idx, stats, returned>>
  /\ UNCHANGED deviceVars

\* Player._play_index(idx) up to its first await, run by the coroutine t with
\* the queue q; frm is what current_idx was before the handler changed it.
\* total_downloads is counted before the lookup, and cache_hits or
\* cache_misses after it; for a track without URL get_cache_key raises on
\* None.encode() between the two, and the except branch of line 1103 shows
\* the error
PlayIndex(t, idx, q, frm, poll) ==
  IF ~(0 <= idx /\ idx < Len(q))
  THEN /\ ev' = NoEvent
       /\ UNCHANGED index_file
       /\ fr' = NoReturn
       /\ UNCHANGED <<clearing, history>>
       /\ step' = [poll |-> poll, pos |-> NoIndex, noresult |-> FALSE]
       /\ UNCHANGED <<cache_info, disk, current_idx, stats, task, zombies, returned>>
       /\ UNCHANGED deviceVars
  ELSE LET u == Track(q, idx)
           g1 == GetCachedFile(u, cache_info, disk, now)
           g2 == GetCachedFile(u, g1.info, disk, now)
           look(r) == [NoEvent EXCEPT !.op = "lookup", !.url = u, !.ret = r,
                                    !.purged = g1.purged]
       IN /\ CanAccess(u)
          /\ current_idx' = idx
          /\ is_paused' = FALSE
          /\ IF u = None
             THEN /\ stats < MaxUncounted
                  /\ stats' = stats + 1
                  /\ status' = "failed"
                  /\ ev' = NoEvent
                  /\ UNCHANGED index_file
                  /\ fr' = NoReturn
                  /\ UNCHANGED <<clearing, history>>
                  /\ step' = [poll |-> poll, pos |-> NoIndex, noresult |-> FALSE]
                  /\ UNCHANGED <<cache_info, disk, task, zombies, returned,
                                 mixer_file, mixer_state>>
             ELSE IF g1.ret # None
             THEN /\ stats' = stats + 1 - 1
                  /\ PlayLoaded(t, g1.ret, g1.info, disk, look(g1.ret), task,
                                NoReturn, q, idx, poll)
                  /\ UNCHANGED returned
             ELSE /\ stats' = stats + 1 - 1
                  /\ task' = [task EXCEPT
                                ![t] = [Idle EXCEPT !.pc = "resolve", !.url = u,
                                                    !.idx = idx, !.from = frm]]
                  /\ cache_info' = g2.info
                  /\ status' = "loading"
                  /\ ev' = look(None)
                  /\ SaveIndex
                  /\ fr' = NoReturn
                  /\ UNCHANGED <<clearing, history>>
                  /\ step' = [poll |-> poll, pos |-> NoIndex, noresult |-> FALSE]
                  /\ UNCHANGED <<disk, mixer_file, mixer_state, zombies, returned>>

\* handle_input once get_track_info_fast or search_tracks_fast has returned
\* tracks
HandleInputTracks(tracks) ==
  /\ task[PlayTask].pc = "idle"
  /\ queue' = tracks
  /\ searching' = FALSE
  /\ UNCHANGED <<history_mode, saved_queue, player_history>>
  /\ PlayIndex(PlayTask, 0, tracks, 0, FALSE)
  /\ UNCHANGED now

\* handle_input once the search has returned its n tracks
HandleInput(n) == HandleInputTracks(SearchResults(n))

\* Player.action_next_track
NextTrack ==
  /\ task[PlayTask].pc = "idle"
  /\ Len(queue) > 0 /\ current_idx < Len(queue) - 1
  /\ PlayIndex(PlayTask, current_idx + 1, queue, current_idx, FALSE)
  /\ UNCHANGED <<now, queue, viewVars>>

\* Player.action_prev_track
PrevTrack ==
  /\ task[PlayTask].pc = "idle"
  /\ Len(queue) > 0 /\ current_idx > 0
  /\ PlayIndex(PlayTask, current_idx - 1, queue, current_idx, FALSE)
  /\ UNCHANGED <<now, queue, viewVars>>

\* Player.on_list_view_selected: the task it creates runs _play_index(i)
ListViewSelected(i) ==
  /\ ~history_mode
  /\ task[PlayTask].pc = "idle"
  /\ i \in 0..(Len(queue) - 1)
  /\ PlayIndex(PlayTask, i, queue, current_idx, FALSE)
  /\ UNCHANGED <<now, queue, viewVars>>

\* mixer.music.get_busy(): playing, and neither paused nor at its end
GetBusy == mixer_state = "playing"

\* the test of the polling loop that ignores is_paused
AtEndPaused == ~GetBusy

\* the test of the polling loop: not mixer.music.get_busy() and not
\* self.is_paused
AtEnd == ~GetBusy /\ ~is_paused

\* the polling loop without its automatic step to the next track
PollNoAdvance ==
  /\ task[PollTask].pc = "idle"
  /\ ev' = NoEvent
  /\ UNCHANGED index_file
  /\ fr' = NoReturn
  /\ UNCHANGED <<clearing, history>>
  /\ step' = [poll |-> TRUE, pos |-> NoIndex, noresult |-> FALSE]
  /\ UNCHANGED <<cache_info, disk, now, queue, viewVars, current_idx, stats, task, zombies,
                 returned>>
  /\ UNCHANGED deviceVars

\* one iteration of the loop of Player._update_track_progress, which is not
\* inside _play_index: at the end of the track it goes on to the next one
Poll ==
  /\ task[PollTask].pc = "idle"
  /\ IF AtEnd /\ Len(queue) > 0 /\ current_idx < Len(queue) - 1
     THEN PlayIndex(PollTask, current_idx + 1, queue, current_idx, TRUE)
     ELSE /\ ev' = NoEvent
          /\ UNCHANGED index_file
          /\ fr' = NoReturn
          /\ UNCHANGED <<clearing, history>>
          /\ step' = [poll |-> TRUE, pos |-> NoIndex, noresult |-> FALSE]
          /\ UNCHANGED <<cache_info, disk, current_idx, stats, task, zombies, returned>>
          /\ UNCHANGED deviceVars
  /\ UNCHANGED <<now, queue, viewVars>>

\* Player.action_toggle_pause; current_track is set once a queue was played
TogglePause ==
  /\ IF GetBusy
     THEN /\ mixer_state' = "paused"
          /\ is_paused' = TRUE
          /\ status' = "paused"
     ELSE /\ mixer_state' = (IF mixer_state = "paused" THEN "playing"
                             ELSE mixer_state)
          /\ is_paused' = FALSE
          /\ status' = (IF queue # <<>> THEN "playing" ELSE status)
  /\ ev' = NoEvent
  /\ UNCHANGED index_file
  /\ fr' = NoReturn
  /\ UNCHANGED <<clearing, history>>
  /\ step' = NoStep
  /\ UNCHANGED <<cache_info, disk, now, mixer_file, queue, viewVars, current_idx,
                 stats, task,
                 zombies, returned>>

\* the track that plays comes to its end
TrackEnds ==
  /\ mixer_state = "playing"
  /\ mixer_state' = "stopped"
  /\ ev' = NoEvent
  /\ UNCHANGED index_file
  /\ fr' = NoReturn
  /\ UNCHANGED <<clearing, history>>
  /\ step' = NoStep
  /\ UNCHANGED <<cache_info, disk, now, mixer_file, queue, viewVars, current_idx,
                 stats, task,
                 zombies, is_paused, status, returned>>

\* the fetches and the prefetches, with one _play_index at a time and a track
\* that plays on
Next ==
  \/ Tick
  \/ HandleInput(QLen)
  \/ NextTrack
  \/ PrevTrack
  \/ \E i \in 0..(QLen - 1) : ListViewSelected(i)
  \/ \E t \in Tasks : PrefetchStart(t)
  \/ \E t \in Tasks, o \in {"none", "stream", "managed"} : Resolve(t, o)
  \/ \E t \in Tasks, o \in {"raise", "status", "ok"} : Get(t, o)
  \/ \E t \in Tasks : Write(t)
  \/ \E t \in Tasks : WriteAbort(t)
  \/ \E t \in Tasks, locked \in LockChoices : WriteDone(t, locked)
  \/ \E t \in Tasks, ok \in BOOLEAN : YtdlpThread(t, ok)
  \/ \E t \in Tasks, locked \in LockChoices : YtdlpResume(t, locked)
  \/ \E u \in Urls, ok \in BOOLEAN : ZombieThread(u, ok)

Spec == Init /\ [][Next]_vars

\* the player with its polling loop and its pause, where every download is a
\* managed one and no prefetch gets to run before it is cancelled
NextPlayer ==
  \/ HandleInput(QLen)
  \/ NextTrack
  \/ PrevTrack
  \/ \E i \in 0..(QLen - 1) : ListViewSelected(i)
  \/ Poll
  \/ TogglePause
  \/ TrackEnds
  \/ \E t \in PlayTasks, o \in {"none", "managed"} : Resolve(t, o)
  \/ \E t \in PlayTasks, ok \in BOOLEAN : YtdlpThread(t, ok)
  \/ \E t \in PlayTasks, locked \in LockChoices : YtdlpResume(t, locked)

SpecPlayer == Init /\ [][NextPlayer]_vars

\* the first search of the session returns a long list
FirstInput ==
  /\ queue = <<>>
  /\ HandleInput(MaxQueue)

\* a long queue played from its first track on, where every download is a
\* managed one that may fail, and only the thread of the track to play brings
\* its download to an end
NextPrefetch ==
  \/ FirstInput
  \/ NextTrack
  \/ \E t \in Tasks : PrefetchStart(t)
  \/ \E t \in Tasks, o \in {"none", "managed"} : Resolve(t, o)
  \/ \E t \in Tasks : YtdlpThread(t, FALSE)
  \/ YtdlpThread(PlayTask, TRUE)
  \/ \E locked \in LockChoices : YtdlpResume(PlayTask, locked)

SpecPrefetch == Init /\ [][NextPrefetch]_vars


(* ------------------- the index file across program runs ----------------- *)
\* the timestamp and the access_count of the items an earlier run of the
\* program wrote: inserted before this run started and not looked up again
Earlier == [u \in Urls |-> [timestamp |-> StartTime - 1, access_count |-> 1]]

\* the sequences of at most MaxItems items with distinct urls, each of the
\* size of the smallest file and lacking nothing, access_count or a required key
RECURSIVE ItemSeqs(_)
ItemSeqs(n) ==
  IF n = 0 THEN {<<>>}
  ELSE LET shorter == ItemSeqs(n - 1)
       IN shorter \cup
          {Append(s, [url |-> u, size |-> 1, missing |-> m]) :
             s \in {x \in shorter : Len(x) = n - 1},
             u \in Refs, m \in {"none", "access_count", "required"}}

DistinctUrls(s) == \A i, j \in 1..Len(s) : s[i].url = s[j].url => i = j

\* the contents of cache_info.json a run of the program may find: a JSON
\* document of items, or a text that is no JSON document
IndexFiles ==
  {Truncated} \cup
  {[whole |-> TRUE, items |-> s] : s \in {x \in ItemSeqs(MaxItems) : DistinctUrls(x)}}

\* AudioCache.__init__ and Player.__init__ of a run that finds the index file
\* f, and in CACHE_DIR the audio file of each of its items but those of gone
InitIndex ==
  \E f \in IndexFiles, gone \in {{}} \cup {{u} : u \in Refs} :
    /\ index_file = f
    /\ cache_info = LoadCacheInfo(f, Earlier)
    /\ disk = [u \in Urls |->
                 IF \E i \in 1..Len(f.items) : f.items[i].url = u /\ u \notin gone
                 THEN WholeFile(1) ELSE NoFile]
    /\ now = StartTime
    /\ mixer_file = None
    /\ queue = <<>>
    /\ history_mode = FALSE
    /\ saved_queue = <<>>
    /\ searching = FALSE
    /\ player_history = <<>>
    /\ stats = 0
    /\ current_idx = 0
    /\ task = [t \in Tasks |-> Idle]
    /\ zombies = {}
    /\ mixer_state = "stopped"
    /\ is_paused = FALSE
    /\ status = "idle"
    /\ returned = {}
    /\ ev = NoEvent
    /\ fr = NoReturn
    /\ step = NoStep
    /\ clearing = FALSE
    /\ history = <<>>

\* download_track_fast(url) run to its end with nothing interleaved on a
\* reference whose lookup returns nothing and whose get_stream_url returns
\* None: it returns None
SeqMiss(u) ==
  /\ LET g == GetCachedFile(u, cache_info, disk, now)
     IN /\ g.ret = None
        /\ cache_info' = g.info
        /\ ev' = [NoEvent EXCEPT !.op = "lookup", !.url = u, !.ret = g.ret,
                                 !.purged = g.purged]
        /\ SaveIndex
  /\ UNCHANGED <<disk, now>>
  /\ UNCHANGED deviceVars
  /\ UNCHANGED playerVars

\* SeqFetch whose process is killed while the save_cache_info() of line 178
\* writes the file, followed by the start of the next run: the file is the
\* text cut short, the audio files are as add_to_cache left them, and the
\* new process builds its index with load_cache_info
CrashInSave(u, s) ==
  /\ LET g == GetCachedFile(u, cache_info, disk, now)
     IN /\ g.ret = None
        /\ ~disk[u].exists
        /\ LET a == AddToCache(u, g.info, [disk EXCEPT ![u] = WholeFile(s)],
                               now, {})
           IN /\ index_file' = Truncated
              /\ cache_info' = LoadCacheInfo(Truncated, Earlier)
              /\ disk' = a.disk
              /\ ev' = a.ev
  /\ mixer_file' = None
  /\ mixer_state' = "stopped"
  /\ is_paused' = FALSE
  /\ status' = "idle"
  /\ UNCHANGED now
  /\ UNCHANGED playerVars

NextIndex ==
  \/ \E u \in Refs : SeqMiss(u)
  \/ \E u \in Refs, s \in FileSizes : SeqFetch(u, s, {})
  \/ \E u \in Refs, s \in FileSizes : CrashInSave(u, s)

SpecIndex == InitIndex /\ [][NextIndex]_vars


(* ------------------------------ clearing the cache ---------------------- *)
\* the files of CACHE_DIR that are open: the one the audio device holds and
\* the ones download_stream is writing
OpenFiles ==
  {u \in Urls : disk[u].exists /\
     (u = mixer_file \/ \E t \in Tasks : task[t].pc = "write" /\ task[t].att
                                          /\ task[t].url = u)}

\* the paths whose unlink may raise in action_clear_cache: none, or the open
\* files on a platform that forbids unlinking an open file
ClearLockChoices == {{}, OpenFiles}

\* action_clear_cache that gives way to the other tasks after its unlinks,
\* before cache_info.clear()
ClearCacheYields(locked) ==
  LET removed == {u \in Urls : disk[u].exists /\ u \notin locked}
  IN /\ ~clearing
     /\ disk' = [u \in Urls |-> IF u \in removed THEN NoFile ELSE disk[u]]
     /\ task' = Detach(task, removed)
     /\ status' = "cleared"
     /\ clearing' = TRUE
     /\ returned' = {}
     /\ ev' = [NoEvent EXCEPT !.op = "clear"]
     /\ fr' = NoReturn
     /\ step' = NoStep
     /\ UNCHANGED <<cache_info, index_file, now, mixer_file, mixer_state,
                    is_paused, queue, viewVars, current_idx, stats, zombies,
                    history>>

\* Player.action_clear_cache up to its await asyncio.sleep(2): every file of
\* CACHE_DIR is unlinked, the index file among them, an exception of unlink
\* is swallowed; then cache_info.clear() and save_cache_info()
ClearCache(locked) ==
  LET removed == {u \in Urls : disk[u].exists /\ u \notin locked}
  IN /\ ~clearing
     /\ disk' = [u \in Urls |-> IF u \in removed THEN NoFile ELSE disk[u]]
     /\ task' = Detach(task, removed)
     /\ cache_info' = <<>>
     /\ index_file' = SaveCacheInfo(<<>>)
     /\ status' = "cleared"
     /\ clearing' = TRUE
     /\ returned' = {}
     /\ ev' = [NoEvent EXCEPT !.op = "clear"]
     /\ fr' = NoReturn
     /\ step' = NoStep
     /\ UNCHANGED <<now, mixer_file, mixer_state, is_paused, queue, viewVars,
                    current_idx, stats,
                    zombies, history>>

\* Player.action_clear_cache after its sleep: the status line shows the
\* current track again, if there is one
ClearDone ==
  /\ clearing
  /\ clearing' = FALSE
  /\ status' = IF mixer_file # None THEN "playing" ELSE status
  /\ ev' = NoEvent
  /\ fr' = NoReturn
  /\ step' = NoStep
  /\ UNCHANGED <<cache_info, disk, index_file, now, mixer_file, mixer_state,
                 is_paused, queue, viewVars, current_idx, stats, task, zombies,
                 returned, history>>

\* searches, the downloads they start, none of which fails, and the clearing
\* of the cache; no two tasks fetch the same reference
NextClear ==
  \/ HandleInput(QLen)
  \/ \E t \in Tasks : PrefetchStart(t)
  \/ \E t \in Tasks, o \in {"stream", "managed"} : Resolve(t, o)
  \/ \E t \in Tasks : Get(t, "ok")
  \/ \E t \in Tasks : Write(t)
  \/ \E t \in Tasks, locked \in LockChoices : WriteDone(t, locked)
  \/ \E t \in Tasks : YtdlpThread(t, TRUE)
  \/ \E t \in Tasks, locked \in LockChoices : YtdlpResume(t, locked)
  \/ \E locked \in ClearLockChoices : ClearCache(locked)
  \/ ClearDone

SpecClear == Init /\ [][NextClear]_vars

\* handle_input with the assignments of its success branch made before the
\* test of the result
InputFailsResetsQueue ==
  /\ status' = "not_found"
  /\ queue' = <<>>
  /\ current_idx' = 0
  /\ searching' = FALSE
  /\ UNCHANGED <<history_mode, saved_queue, player_history, stats>>
  /\ step' = [NoStep EXCEPT !.noresult = TRUE]
  /\ ev' = NoEvent
  /\ fr' = NoReturn
  /\ UNCHANGED <<cache_info, disk, index_file, now, mixer_file, mixer_state,
                 is_paused, task, zombies, returned, clearing, history>>

\* handle_input once get_track_info_fast has returned None for a URL, or
\* search_tracks_fast no track for a query: the error is put on the status
\* line and the handler ends
InputFails ==
  /\ status' = "not_found"
  /\ queue' = queue
  /\ current_idx' = current_idx
  /\ searching' = FALSE
  /\ UNCHANGED <<history_mode, saved_queue, player_history, stats>>
  /\ step' = [NoStep EXCEPT !.noresult = TRUE]
  /\ ev' = NoEvent
  /\ fr' = NoReturn
  /\ UNCHANGED <<cache_info, disk, index_file, now, mixer_file, mixer_state,
                 is_paused, task, zombies, returned, clearing, history>>

\* the one search of a run that makes a single search
FirstSearch == queue = <<>> /\ HandleInput(QLen)

\* the foreground task, the polling task, the prefetch tasks and the clearing
\* of the cache, interleaved; every download is a managed one that succeeds
NextTasks ==
  \/ FirstSearch
  \/ InputFails
  \/ Poll
  \/ TrackEnds
  \/ \E t \in Tasks : PrefetchStart(t)
  \/ \E t \in Tasks : Resolve(t, "managed")
  \/ \E t \in Tasks : YtdlpThread(t, TRUE)
  \/ \E t \in Tasks, locked \in LockChoices : YtdlpResume(t, locked)
  \/ \E locked \in ClearLockChoices : ClearCache(locked)
  \/ ClearDone

SpecTasks == Init /\ [][NextTasks]_vars

(* ------------------------------ the history ---------------------------- *)
\* the entry append_history_item builds for an item: its url and
\* int(time.time()); id, title and artist follow from the item
HistoryEntry(u, t) == [url |-> u, ts |-> t]

\* [h for h in hist if not (h.get("url") == entry["url"] and entry["url"])]
RECURSIVE Without(_, _)
Without(hist, u) ==
  IF hist = <<>> THEN <<>>
  ELSE IF Head(hist).url = u /\ u # None THEN Without(Tail(hist), u)
       ELSE <<Head(hist)>> \o Without(Tail(hist), u)

\* append_history_item that inserts the entry without the filter
AppendHistoryItemNoFilter(hist, u, t) ==
  LET longer == <<HistoryEntry(u, t)>> \o hist
  IN SubSeq(longer, 1, Min(Len(longer), MaxHistory))

\* append_history_item(item) on the list load_history() returned: the list
\* save_history() writes
AppendHistoryItem(hist, u, t) ==
  LET longer == <<HistoryEntry(u, t)>> \o Without(hist, u)
  IN SubSeq(longer, 1, Min(Len(longer), MaxHistory))

\* the lists of at most n urls, empty urls and repeated urls among them
RECURSIVE UrlSeqs(_)
UrlSeqs(n) ==
  IF n = 0 THEN {<<>>}
  ELSE LET shorter == UrlSeqs(n - 1)
       IN shorter \cup {Append(s, u) : s \in {x \in shorter : Len(x) = n - 1},
                                       u \in Refs \cup {None}}

\* a run that finds a history file of entries written before it started,
\* the first of them last; the history view, which shows them, is not opened
InitHistory ==
  \E s \in UrlSeqs(MaxHistory) :
    /\ history = [i \in 1..Len(s) |-> HistoryEntry(s[i], StartTime - i)]
    /\ index_file = SaveCacheInfo(<<>>)
    /\ clearing = FALSE
    /\ cache_info = <<>>
    /\ disk = [u \in Urls |-> NoFile]
    /\ now = StartTime
    /\ mixer_file = None
    /\ queue = <<>>
    /\ history_mode = FALSE
    /\ saved_queue = <<>>
    /\ searching = FALSE
    /\ player_history = <<>>
    /\ stats = 0
    /\ current_idx = 0
    /\ task = [t \in Tasks |-> Idle]
    /\ zombies = {}
    /\ mixer_state = "stopped"
    /\ is_paused = FALSE
    /\ status = "idle"
    /\ returned = {}
    /\ ev = NoEvent
    /\ fr = NoReturn
    /\ step = NoStep

\* append_history_item(item) for an item whose url is u, or is empty
AppendHistory(u) ==
  /\ history' = AppendHistoryItem(history, u, now)
  /\ ev' = [NoEvent EXCEPT !.op = "history", !.url = u]
  /\ fr' = NoReturn
  /\ step' = NoStep
  /\ UNCHANGED <<cache_info, disk, index_file, now, queue, viewVars, current_idx,
                 stats, task,
                 zombies, returned, clearing>>
  /\ UNCHANGED deviceVars

NextHistory ==
  \/ Tick
  \/ \E u \in Refs \cup {None} : AppendHistory(u)

SpecHistory == InitHistory /\ [][NextHistory]_vars


(* ------------------------------ one search's fetches -------------------- *)
\* the fetches of one search: the foreground fetch of its first track, the
\* user's step to the next track, and the prefetches, with every outcome of
\* get_stream_url, of the direct stream and of the managed download
NextFetch ==
  \/ FirstSearch
  \/ NextTrack
  \/ \E t \in Tasks : PrefetchStart(t)
  \/ \E t \in Tasks, o \in {"none", "stream", "managed"} : Resolve(t, o)
  \/ \E t \in Tasks, o \in {"raise", "status", "ok"} : Get(t, o)
  \/ \E t \in Tasks : Write(t)
  \/ \E t \in Tasks : WriteAbort(t)
  \/ \E t \in Tasks, locked \in LockChoices : WriteDone(t, locked)
  \/ \E t \in Tasks, ok \in BOOLEAN : YtdlpThread(t, ok)
  \/ \E t \in Tasks, locked \in LockChoices : YtdlpResume(t, locked)
  \/ \E u \in Urls, ok \in BOOLEAN : ZombieThread(u, ok)

SpecFetch == Init /\ [][NextFetch]_vars

(* ------------------------- the history view and the statistics ---------- *)
\* the tracks a search returns when the last of its n entries has neither
\* 'url' nor 'webpage_url' (search_tracks_sync: e.get('url') or
\* e.get('webpage_url'))
NoUrlResults(n) == [i \in 1..n |-> IF i = n THEN None ELSE i]

\* the URLs of the history entries a run may find at its start: none, or the
\* entries of track 1 and of a track without URL
FoundHistories == {<<>>, <<1, None>>}

\* Player.__init__ of a run that finds a history file: self.history is
\* load_history()
InitView ==
  \E s \in FoundHistories :
    /\ history = [i \in 1..Len(s) |-> HistoryEntry(s[i], StartTime - i)]
    /\ player_history = s
    /\ history_mode = FALSE
    /\ saved_queue = <<>>
    /\ searching = FALSE
    /\ stats = 0
    /\ index_file = SaveCacheInfo(<<>>)
    /\ clearing = FALSE
    /\ cache_info = <<>>
    /\ disk = [u \in Urls |-> NoFile]
    /\ now = StartTime
    /\ mixer_file = None
    /\ queue = <<>>
    /\ current_idx = 0
    /\ task = [t \in Tasks |-> Idle]
    /\ zombies = {}
    /\ mixer_state = "stopped"
    /\ is_paused = FALSE
    /\ status = "idle"
    /\ returned = {}
    /\ ev = NoEvent
    /\ fr = NoReturn
    /\ step = NoStep

\* on_input_submitted outside the history view, and handle_input up to its
\* await of get_track_info_fast or search_tracks_fast
InputSubmitted ==
  /\ ~history_mode
  /\ ~searching
  /\ searching' = TRUE
  /\ status' = "searching"
  /\ ev' = NoEvent
  /\ fr' = NoReturn
  /\ step' = NoStep
  /\ UNCHANGED <<history_mode, saved_queue, player_history, stats>>
  /\ UNCHANGED <<cache_info, disk, index_file, now, mixer_file, mixer_state,
                 is_paused, queue, current_idx, task, zombies, returned,
                 clearing, history>>

\* the handle_input that waits goes on with the tracks found
SearchReturns(tracks) == searching /\ HandleInputTracks(tracks)

\* the handle_input that waits goes on with nothing found
SearchFails == searching /\ InputFails

\* Player.action_toggle_history: into the history view, keeping a copy of
\* the queue, and back, with the copy as the queue if it is not empty
ToggleHistory ==
  /\ IF ~history_mode
     THEN /\ saved_queue' = queue
          /\ history_mode' = TRUE
          /\ status' = "history"
          /\ UNCHANGED queue
     ELSE /\ queue' = (IF saved_queue # <<>> THEN saved_queue ELSE queue)
          /\ history_mode' = FALSE
          /\ status' = (IF saved_queue # <<>> THEN "queue" ELSE "no_queue")
          /\ UNCHANGED saved_queue
  /\ ev' = NoEvent
  /\ fr' = NoReturn
  /\ step' = NoStep
  /\ UNCHANGED <<searching, player_history, stats>>
  /\ UNCHANGED <<cache_info, disk, index_file, now, mixer_file, mixer_state,
                 is_paused, current_idx, task, zombies, returned, clearing,
                 history>>

\* on_input_submitted in the history view, and Player._play_direct(item) up
\* to its first await, for the entry sel of self.history
PlayDirect(sel) ==
  /\ history_mode
  /\ sel \in 1..Len(player_history)
  /\ task[PlayTask].pc = "idle"
  /\ LET u == player_history[sel]
         g1 == GetCachedFile(u, cache_info, disk, now)
         g2 == GetCachedFile(u, g1.info, disk, now)
         look(r) == [NoEvent EXCEPT !.op = "lookup", !.url = u, !.ret = r,
                                    !.purged = g1.purged]
     IN /\ CanAccess(u)
        /\ is_paused' = FALSE
        /\ IF u = None
           THEN /\ stats < MaxUncounted
                /\ stats' = stats + 1
                /\ status' = "failed"
                /\ ev' = NoEvent
                /\ UNCHANGED index_file
                /\ fr' = NoReturn
                /\ UNCHANGED <<clearing, history>>
                /\ step' = NoStep
                /\ UNCHANGED <<cache_info, disk, task, zombies, returned,
                               mixer_file, mixer_state>>
           ELSE IF g1.ret # None
           THEN /\ stats' = stats + 1 - 1
                /\ PlayLoaded(PlayTask, g1.ret, g1.info, disk, look(g1.ret),
                              task, NoReturn, queue, NoIndex, FALSE)
                /\ UNCHANGED returned
           ELSE /\ stats' = stats + 1 - 1
                /\ task' = [task EXCEPT
                              ![PlayTask] = [Idle EXCEPT !.pc = "resolve",
                                                         !.url = u]]
                /\ cache_info' = g2.info
                /\ status' = "loading"
                /\ ev' = look(None)
                /\ SaveIndex
                /\ fr' = NoReturn
                /\ UNCHANGED <<clearing, history>>
                /\ step' = NoStep
                /\ UNCHANGED <<disk, mixer_file, mixer_state, zombies, returned>>
  /\ UNCHANGED <<now, queue, viewVars, current_idx>>

\* the searches and the history view, next to the steps through the queue
\* and the polling loop, in a run that found no history; every download is a
\* managed one
NextView ==
  \/ InputSubmitted
  \/ \E n \in {1, QLen} : SearchReturns(SearchResults(n))
  \/ SearchFails
  \/ ToggleHistory
  \/ NextTrack
  \/ PrevTrack
  \/ \E i \in 0..(QLen - 1) : ListViewSelected(i)
  \/ Poll
  \/ TrackEnds
  \/ \E t \in PlayTasks, o \in {"none", "managed"} : Resolve(t, o)
  \/ \E t \in PlayTasks, ok \in BOOLEAN : YtdlpThread(t, ok)
  \/ \E t \in PlayTasks, locked \in LockChoices : YtdlpResume(t, locked)

SpecView == Init /\ [][NextView]_vars

\* the plays of a run that found a history: the search whose last track has
\* no URL, the steps through its queue, and the plays from the history view;
\* every download is a managed one
NextStats ==
  \/ InputSubmitted
  \/ SearchReturns(NoUrlResults(QLen))
  \/ ToggleHistory
  \/ \E sel \in 1..MaxHistory : PlayDirect(sel)
  \/ NextTrack
  \/ PrevTrack
  \/ \E t \in PlayTasks, o \in {"none", "managed"} : Resolve(t, o)
  \/ \E t \in PlayTasks, ok \in BOOLEAN : YtdlpThread(t, ok)
  \/ \E t \in PlayTasks, locked \in LockChoices : YtdlpResume(t, locked)

SpecStats == InitView /\ [][NextStats]_vars
(* ------------------------------ claims --------------------------------- *)
Pos(s, x) == CHOOSE i \in 1..Len(s) : s[i] = x
Inserted == ev.op = "insert"

\* C1: each time add_to_cache returns, the sizes of the index entries sum to
\* at most max_size, unless no evictable entry remains (every other entry
\* left is one whose file could not be removed) and the new entry still does
\* not fit.
C1_SizeWithinCapacity ==
  Inserted =>
    \/ CurrentSize(cache_info) <= MaxSize
    \/ DOMAIN cache_info \ {ev.url} \subseteq ev.failed

\* C1 witness: an insert evicted an entry, another entry survived, and the
\* total is within the capacity (capacity 1000, A 600, B 600: A evicted)
C1_Witness ==
  /\ Inserted
  /\ ev.log # <<>>
  /\ ev.failed = {}
  /\ Cardinality(DOMAIN cache_info) >= 2
  /\ CurrentSize(cache_info) <= MaxSize

\* C6 (as claimed): when an insert lacks space and the index holds A with the
\* lower access_count and the older timestamp and B with the higher
\* access_count and the more recent timestamp, B is not evicted unless A,
\* whose file can be removed, was evicted before it.
C6_LowOldEvictedFirst ==
  [][ev'.op = "insert" =>
       \A a \in DOMAIN cache_info, b \in DOMAIN cache_info :
         ( /\ cache_info[a].access_count < cache_info[b].access_count
           /\ cache_info[a].timestamp < cache_info[b].timestamp
           /\ a \notin ev'.failed
           /\ b \in Range(ev'.log) )
         => /\ a \in Range(ev'.log)
            /\ Pos(ev'.log, a) < Pos(ev'.log, b)]_vars

\* the entries still in the index when the i-th eviction of a cleanup is made
StillIndexed(info, log, i) == DOMAIN info \ {log[j] : j \in 1..(i - 1)}

\* C7 (as claimed): whenever _cleanup_cache evicts an entry, no entry still
\* in the index has a strictly lower score.
C7_NoLowerScoreLeft ==
  [][ev'.op = "insert" =>
       \A i \in 1..Len(ev'.log) :
         \A k \in StillIndexed(cache_info, ev'.log, i) :
           ~ScoreLess(cache_info[k], cache_info[ev'.log[i]])]_vars

\* C7 (amended): whenever _cleanup_cache evicts an entry, every entry still in
\* the index with a strictly lower score is one whose file it has already
\* tried and failed to remove.
C7_LowestRemovableFirst ==
  [][ev'.op = "insert" =>
       \A i \in 1..Len(ev'.log) :
         \A k \in StillIndexed(cache_info, ev'.log, i) :
           ScoreLess(cache_info[k], cache_info[ev'.log[i]]) => k \in ev'.failed]_vars

\* C7 witness: one cleanup evicted two entries, one after the other, and
\* every unlink succeeded
C7_Witness ==
  /\ Inserted
  /\ Len(ev.log) >= 2
  /\ ev.failed = {}

\* C8 (as claimed): of two eviction candidates with an equal score, the one
\* with the older timestamp, whose file can be removed, is evicted first.
C8_TieOlderFirst ==
  [][ev'.op = "insert" =>
       \A a \in DOMAIN cache_info, b \in DOMAIN cache_info :
         ( /\ ScoreEq(cache_info[a], cache_info[b])
           /\ cache_info[a].timestamp < cache_info[b].timestamp
           /\ a \notin ev'.failed
           /\ b \in Range(ev'.log) )
         => /\ a \in Range(ev'.log)
            /\ Pos(ev'.log, a) < Pos(ev'.log, b)]_vars

Downloading(t) == task[t].pc \in {"get", "write", "ytdlp"}

\* C2 (as claimed): while a file is loaded in the audio device, and stays
\* loaded, no insert evicts its entry and unlinks the file.
C2_LoadedFileNotEvicted ==
  [][(ev'.op = "insert" /\ mixer_file # None /\ mixer_file' = mixer_file) =>
       mixer_file \notin Range(ev'.log)]_vars

\* C3 (as claimed): of two concurrent fetches of one uncached reference only
\* one downloads it: no two coroutines are downloading the same URL.
C3_OneDownloadPerRef ==
  \A t1 \in Tasks, t2 \in Tasks :
    (t1 # t2 /\ Downloading(t1) /\ Downloading(t2)) => task[t1].url # task[t2].url

\* C4 (as claimed): a fetch of a reference for which an earlier fetch returned
\* a file, with no eviction since, is a cache hit: it does not go on to
\* get_stream_url.
C4_SecondFetchHits ==
  [][\A t \in Tasks :
       (task[t].pc # "resolve" /\ task'[t].pc = "resolve") =>
         task'[t].url \notin returned]_vars

\* C5 (as claimed): a lookup right after add_to_cache registered a reference
\* returns the path of a file that holds what was inserted.
C5_InsertThenLookup ==
  Inserted =>
    /\ GetCachedFile(ev.url, cache_info, disk, now).ret = ev.url
    /\ disk[ev.url] = ev.file

\* C10 (as claimed): a fetch whose direct stream aborted in mid-transfer and
\* that returns a file returns the complete file of the managed download,
\* registered in the cache.
C10_FallbackReturnsComplete ==
  (fr.fb = "midway" /\ fr.ret # None) =>
    /\ IsComplete(disk[fr.ret])
    /\ fr.ret \in DOMAIN cache_info

\* a fetch of the coroutine t is in flight
InFlight(t) == task[t].pc \notin {"idle", "start"}

\* C11 (as claimed): whenever no fetch is in flight, every file present in the
\* cache directory is recorded in the index: a failed download leaves no file.
C11_NoOrphanFiles ==
  ((\A t \in Tasks : ~InFlight(t)) /\ zombies = {}) =>
    \A u \in Urls : disk[u].exists => u \in DOMAIN cache_info

\* the step cancels the prefetch task t: it leaves its place without having
\* returned
Cancelled(t) ==
  /\ task'[t].pc \in {"idle", "start"}
  /\ fr'.task # t

\* C12 (as claimed): when a prefetch task is cancelled while it writes the
\* body of its download, the partial file does not stay at the cache path
\* (unless another coroutine is writing that file).
C12_CancelDiscardsPartial ==
  [][\A t \in PrefetchIds :
       (task[t].pc = "write" /\ Cancelled(t)) =>
         \/ ~disk'[task[t].url].exists
         \/ IsComplete(disk'[task[t].url])
         \/ \E o \in Tasks : task'[o].pc = "write" /\ task'[o].url = task[t].url]_vars

\* C13: the step in which the fetch of a prefetch task fails leaves
\* current_idx, the queue (and with them current_track), is_paused, the file
\* loaded in the device and its state as they were, changes no coroutine of
\* the player, and leaves the status display, where errors are shown, alone.
C13_PrefetchFailureIsolated ==
  [][(fr'.task \in PrefetchIds /\ fr'.ret = None) =>
       /\ UNCHANGED <<current_idx, queue, is_paused, mixer_file, mixer_state,
                      status>>
       /\ \A p \in PlayTasks : task'[p] = task[p]]_vars

\* C13 witness: the fetch of a prefetch task failed while a track was playing
C13_Witness ==
  /\ fr.task \in PrefetchIds
  /\ fr.ret = None
  /\ mixer_state = "playing"
  /\ status = "playing"

\* C14: when prefetch_tracks(queue, newIndex) has returned, every prefetch
\* task that exists is one it has just launched, for a queue index from
\* newIndex + 1 to min(newIndex + prefetch_count, last index) and for the
\* track at that index; no task is left for an index <= newIndex.
C14_PrefetchWindow ==
  [][step'.pos # NoIndex =>
       \A t \in PrefetchIds :
         task'[t].pc # "idle" =>
           /\ t > step'.pos
           /\ t <= Min(step'.pos + PrefetchCount, Len(queue') - 1)
           /\ task'[t].pc = "start"
           /\ task'[t].url = Track(queue', t)]_vars

\* C14 witness: prefetch_tracks was called at a position with more than
\* prefetch_count tracks after it, and launched the task of the next index
C14_Witness ==
  /\ step.pos # NoIndex
  /\ step.pos + PrefetchCount < Len(queue) - 1
  /\ task[step.pos + 1].pc = "start"
  /\ task[step.pos + PrefetchCount].pc = "start"

\* the prefetch fetches at work: the coroutines that wait for get_stream_url,
\* for the response, for the body or for yt-dlp, and the yt-dlp threads that
\* run on after their coroutine was cancelled
PrefetchesAtWork ==
  Cardinality({t \in PrefetchIds : task[t].pc \in {"resolve", "get", "write", "ytdlp"}})
    + Cardinality(zombies)

\* C15 (as claimed): at every moment at most prefetch_count prefetch fetches
\* have network or extraction work in progress.
C15_BoundedPrefetchWork == PrefetchesAtWork <= PrefetchCount

\* C16 (as claimed): in the step in which a coroutine of the player sets
\* current_idx and starts the fetch of the track, prefetch_tracks is called
\* with the new index.
C16_PrefetchBeforeFetch ==
  [][\A p \in PlayTasks :
       (task[p].pc = "idle" /\ task'[p].pc = "resolve") =>
         step'.pos = current_idx']_vars

\* C17 (as claimed): when the fetch of _play_index returns no file,
\* current_idx is what it was before the handler that called _play_index
\* changed it.
C17_FailureKeepsPosition ==
  [][\A p \in PlayTasks :
       (fr'.task = p /\ fr'.ret = None) => current_idx' = task[p].from]_vars

\* C18: an iteration of the polling loop made while is_paused is true changes
\* neither current_idx nor any coroutine, and loads nothing into the device.
C18_PausedPollKeepsTrack ==
  [][(step'.poll /\ is_paused) =>
       /\ current_idx' = current_idx
       /\ task' = task
       /\ mixer_file' = mixer_file
       /\ mixer_state' = mixer_state]_vars

\* C18 witness: the loop ran while the player was paused, the device not busy
\* and a next track in the queue
C18_Witness ==
  /\ step.poll
  /\ is_paused
  /\ ~GetBusy
  /\ current_idx < Len(queue) - 1

\* the polling loop starts loading the track u: it is looked up, and either
\* found and handed to the device, or fetched
StartsLoading(u) ==
  /\ ev'.op = "lookup"
  /\ ev'.url = u
  /\ \/ ev'.ret = u
     \/ task'[PollTask].pc = "resolve" /\ task'[PollTask].url = u

\* C19: an iteration of the polling loop made when a track was loaded, the
\* device is not busy and is_paused is false adds one to current_idx and
\* starts loading that track; at the last track of the queue it changes
\* neither current_idx nor any coroutine, and loads nothing.
C19_AutoAdvance ==
  [][(step'.poll /\ mixer_file # None /\ ~GetBusy /\ ~is_paused) =>
       IF current_idx < Len(queue) - 1
       THEN /\ current_idx' = current_idx + 1
            /\ StartsLoading(Track(queue, current_idx + 1))
       ELSE /\ current_idx' = current_idx
            /\ task' = task
            /\ mixer_file' = mixer_file
            /\ mixer_state' = mixer_state]_vars

\* C19 witness: the loop has gone on from a track that ended to the next
\* one, which it fetches
C19_Witness ==
  /\ step.poll
  /\ mixer_file # None
  /\ task[PollTask].pc = "resolve"
  /\ current_idx = task[PollTask].from + 1
  /\ task[PollTask].url = Track(queue, current_idx)

\* C20 (as claimed): when the fetch the polling loop started for an index
\* returns a file after the user has moved to another index, the file is not
\* loaded into the device.
C20_StaleResultDiscarded ==
  [][(/\ fr'.task = PollTask
      /\ fr'.ret # None
      /\ task[PollTask].idx # current_idx) =>
       /\ mixer_file' = mixer_file
       /\ mixer_state' = mixer_state]_vars

(* ------------------------- the index file ------------------------------ *)
\* C21: a lookup (get_cached_file) of a reference whose indexed file is
\* missing on disk removes that entry from the index, writes the index file,
\* returns None, and leaves every other entry of the index as it was.
C21_StaleLookupPurges ==
  [][\A u \in Urls :
       (ev'.op = "lookup" /\ ev'.url = u /\ u \in DOMAIN cache_info
          /\ ~disk[u].exists)
       => /\ ev'.ret = None
          /\ DOMAIN cache_info' = DOMAIN cache_info \ {u}
          /\ \A x \in DOMAIN cache_info' : cache_info'[x] = cache_info[x]
          /\ index_file' = SaveCacheInfo(cache_info')]_vars

\* a lookup has just deleted the entry of a missing file, and another entry
\* is left in the index
C21_Witness ==
  /\ ev.op = "lookup" /\ ev.purged /\ ev.ret = None
  /\ ev.url \notin DOMAIN cache_info
  /\ DOMAIN cache_info # {}

\* the entries a run that starts with the index file f has in its index
Durable(f) == DOMAIN LoadCacheInfo(f, Earlier)

\* C22: a step that starts with an index file that is a JSON document leaves
\* one, crash during save_cache_info included, and the run after it still has
\* every entry the file held before, except the entry the step wrote and the
\* entries it evicted.
C22_CrashKeepsIndex ==
  [][index_file.whole =>
       /\ index_file'.whole
       /\ \A k \in Durable(index_file) \ ({ev'.url} \cup Range(ev'.log)) :
            k \in DOMAIN cache_info']_vars

\* the file is no JSON document, or one of its items lacks a key that
\* from_dict requires
Corrupt(f) == ~f.whole \/ \E i \in 1..Len(f.items) : f.items[i].missing = "required"

\* C23: the index of a run that found a corrupt index file at its start is
\* empty, whatever part of the file is malformed (until the program writes
\* the file anew).
C23_CorruptLoadsEmpty == Corrupt(index_file) => DOMAIN cache_info = {}

(* ------------------------- clearing the cache --------------------------- *)
\* C24 (as claimed): when action_clear_cache has cleared the cache, the index
\* in memory is empty, the index file holds no entry, and no audio file is
\* left in the cache directory.
C24_ClearEmptiesAll ==
  [][ev'.op = "clear" =>
       /\ DOMAIN cache_info' = {}
       /\ index_file' = SaveCacheInfo(<<>>)
       /\ \A u \in Urls : ~disk'[u].exists]_vars

\* C25 (as claimed): with action_clear_cache interleaved with the fetches in
\* progress, every entry of the index refers to a file that exists, and a
\* fetch returns no path of a file that is not there.
C25_ClearDoesNotRace ==
  /\ [](\A u \in DOMAIN cache_info : disk[u].exists)
  /\ [][fr'.ret # None => disk'[fr'.ret].exists]_vars

\* C26: the mutations of the index are serialized.  Under every interleaving
\* of the foreground task, the polling task, the prefetch tasks and the
\* clearing, each step of a task leaves the index as the cache operations it
\* made leave it when they run to their end, and a step that made none
\* leaves the index and its file alone: no step starts on an index that an
\* insert, an eviction or a clear has changed in part.
C26_IndexMutationsSerialized ==
  [][/\ ev'.op = "none" => cache_info' = cache_info /\ index_file' = index_file
     /\ ev'.op = "lookup" =>
          /\ DOMAIN cache_info' =
               DOMAIN cache_info \ (IF ev'.purged THEN {ev'.url} ELSE {})
          /\ index_file' = (IF ev'.purged THEN SaveCacheInfo(cache_info')
                            ELSE index_file)
     /\ ev'.op = "insert" =>
          /\ ev'.url \in DOMAIN cache_info'
          /\ \A k \in Range(ev'.log) \ {ev'.url} :
               k \notin DOMAIN cache_info' /\ ~disk'[k].exists
          /\ index_file' = SaveCacheInfo(cache_info')
     /\ ev'.op = "clear" =>
          /\ DOMAIN cache_info' = {}
          /\ index_file' = SaveCacheInfo(<<>>)]_vars

\* an insert has evicted an entry while a clear is asleep and another task
\* is in the middle of its fetch
C26_Witness ==
  /\ ev.op = "insert" /\ ev.log # <<>>
  /\ clearing
  /\ \E t \in Tasks : task[t].pc \notin {"idle", "start"}

\* C27: when add_to_cache adds no entry for the file a download has just
\* completed, the fetch still returns the path of that file to its caller.
C27_AddFailureStillReturns ==
  [][\A t \in Tasks :
       (/\ \/ task[t].pc = "ytdlp_ok"
           \/ task[t].pc = "write" /\ task[t].off = NChunks
        /\ fr'.task = t
        /\ ev'.op # "insert")
       => fr'.ret = task[t].url]_vars

\* a fetch has returned its path in a step in which add_to_cache found no
\* file to add
C27_Witness ==
  /\ fr.task # NoTask /\ fr.ret # None
  /\ ev.op = "none"
  /\ ~disk[fr.ret].exists

(* ------------------------- a file the device rejects -------------------- *)
\* the fetch of _play_index returns a file, and the step ends without the
\* track playing: mixer.music.load raised
Rejects ==
  /\ fr'.task \in PlayTasks /\ fr'.ret # None
  /\ step'.pos = NoIndex

\* the state a rejected file leaves: the error is on the status line, and
\* the fetch of the last step had returned a file
Rejected ==
  /\ status = "failed"
  /\ fr.task \in PlayTasks /\ fr.ret # None

C29_FailedInputKeepsQueue ==
  [][step'.noresult =>
       /\ queue' = queue
       /\ current_idx' = current_idx
       /\ status' = "not_found"]_vars

\* an input has found nothing while the player was at the second track of
\* its queue
C29_Witness ==
  /\ step.noresult
  /\ status = "not_found"
  /\ queue # <<>>
  /\ current_idx > 0

(* ------------------------------ the history ---------------------------- *)
\* s is the beginning of t
IsPrefix(s, t) == Len(s) <= Len(t) /\ \A i \in 1..Len(s) : s[i] = t[i]

\* C30: after append_history_item(item) for an item with a non-empty url,
\* the saved history has exactly one entry with that url, which is its first
\* entry, and the other entries are in the order they had before.
C30_AppendMovesToFront ==
  [][(ev'.op = "history" /\ ev'.url # None) =>
       /\ Len(history') > 0
       /\ history'[1].url = ev'.url
       /\ \A i \in 2..Len(history') : history'[i].url # ev'.url
       /\ IsPrefix(Tail(history'), Without(history, ev'.url))]_vars

\* an item with a url has been appended to a history that holds other
\* entries: its new entry is the first, before an entry of another url
C30_Witness ==
  /\ ev.op = "history" /\ ev.url # None
  /\ Len(history) > 1
  /\ history[1] = HistoryEntry(ev.url, now)
  /\ history[2].url # ev.url

(* ------------------------- a fetch that is outstanding ------------------ *)
\* the fetch _play_index started for the user at the current index has not
\* returned yet
Loading == InFlight(PlayTask) /\ task[PlayTask].idx = current_idx

\* C31 (as claimed): while the fetch of the foreground task for the current
\* index is outstanding, an iteration of the polling loop leaves current_idx
\* as it is, and when that fetch returns a file that the device accepts, the
\* track that plays is the one the fetch was started for.
C31_NoAdvanceWhileLoading ==
  [][/\ (Loading /\ step'.poll) => current_idx' = current_idx
     /\ (Loading /\ fr'.task = PlayTask /\ step'.pos # NoIndex) =>
          mixer_file' = Track(queue, task[PlayTask].idx)]_vars

(* ------------------------- what an eviction run leaves alone ------------ *)
\* the sizes of the index after the first i evictions of a cleanup's log
SizeAfter(info, log, i) ==
  CurrentSize(info) - SumSizes(info, {log[j] : j \in 1..i})

\* C32: _cleanup_cache(required_size) evicts nothing, and tries no unlink,
\* when current_size + required_size <= max_size holds already; otherwise
\* every eviction it makes is made while that condition is still false, so
\* that it stops as soon as the condition holds; and every entry it has not
\* evicted keeps its index entry and its file as they were.
C32_CleanupStopsWhenRoom ==
  [][ev'.op = "insert" =>
       /\ CurrentSize(cache_info) + ev'.size <= MaxSize =>
            ev'.log = <<>> /\ ev'.failed = {}
       /\ \A i \in 0..(Len(ev'.log) - 1) :
            SizeAfter(cache_info, ev'.log, i) + ev'.size > MaxSize
       /\ \A k \in DOMAIN cache_info \ (Range(ev'.log) \cup {ev'.url}) :
            /\ k \in DOMAIN cache_info'
            /\ cache_info'[k] = cache_info[k]
            /\ disk'[k] = disk[k]]_vars

\* C32 witness: a cleanup has made one eviction, which was enough, and has
\* left another entry, older than the insert, with its file
C32_Witness ==
  /\ Inserted
  /\ Len(ev.log) = 1
  /\ \E k \in DOMAIN cache_info \ {ev.url} :
       disk[k].exists /\ k \notin ev.failed

(* ------------------------- what a lookup hit changes -------------------- *)
\* C33: a lookup (get_cached_file) of a reference that has an index entry
\* whose file exists returns the path of that file, adds exactly one to the
\* access_count of the entry and sets its timestamp to the current time; the
\* index keeps the same set of entries, the entry keeps its size, the other
\* entries are left as they were, and no file is touched.
C33_HitCountsOnce ==
  [][\A u \in Urls :
       (ev'.op = "lookup" /\ ev'.url = u /\ u \in DOMAIN cache_info
          /\ disk[u].exists)
       => /\ ev'.ret = u
          /\ DOMAIN cache_info' = DOMAIN cache_info
          /\ cache_info'[u].access_count = cache_info[u].access_count + 1
          /\ cache_info'[u].timestamp = now
          /\ cache_info'[u].size = cache_info[u].size
          /\ \A k \in DOMAIN cache_info \ {u} : cache_info'[k] = cache_info[k]
          /\ disk' = disk]_vars

\* C33 witness: a lookup has found the file of an entry inserted at an
\* earlier time, next to another entry: the entry has its second access and
\* the time of the lookup
C33_Witness ==
  /\ ev.op = "lookup" /\ ev.ret = ev.url
  /\ now > StartTime
  /\ cache_info[ev.url].access_count = 2
  /\ cache_info[ev.url].timestamp = now
  /\ \E k \in DOMAIN cache_info \ {ev.url} : cache_info[k].timestamp < now

(* ------------------------- the attempts of one fetch -------------------- *)
\* how far a fetch has come: it waits for get_stream_url, for the response of
\* the direct stream, for the body of the direct stream, for the yt-dlp
\* thread, or for its turn after the thread has ended
Rank(pc) ==
  CASE pc = "resolve" -> 1
    [] pc = "get" -> 2
    [] pc = "write" -> 3
    [] pc = "ytdlp" -> 4
    [] pc = "ytdlp_ok" -> 5
    [] OTHER -> 0

\* C34: a fetch (download_track_fast) never goes back: it fetches one URL,
\* it starts the direct stream from get_stream_url alone, once, and the
\* managed download after that, once, and the step in which it returns a
\* path or None ends it.
C34_NoRetry ==
  [][\A t \in Tasks :
       /\ (InFlight(t) /\ task'[t].pc \notin {"idle", "start"}
             /\ task'[t].pc # task[t].pc)
          => /\ task'[t].url = task[t].url
             /\ Rank(task'[t].pc) > Rank(task[t].pc)
       /\ fr'.task = t => task'[t].pc \in {"idle", "start"}]_vars

\* C34 witness: a fetch whose direct stream could not connect and whose
\* managed download failed after it has returned None
C34_Witness ==
  /\ fr.task # NoTask
  /\ fr.fb = "connect"
  /\ fr.ret = None

(* ------------------------- the file a fetch returns --------------------- *)
\* C35 (as claimed): the path a fetch (download_track_fast) returns, to
\* _play_index or to a prefetch task, names a file that is completely
\* written: not one that another download still writes, and not one that an
\* aborted or cancelled download left truncated.
C35_ReturnedFileComplete == fr.ret # None => IsComplete(disk[fr.ret])

(* ------------------------- the pause flag ------------------------------- *)
\* C36 (as claimed): whenever the audio device is playing a track, is_paused
\* is false, whatever the interleaving of action_toggle_pause with the
\* loading of a track.
C36_PlayingIsNotPaused == mixer_state = "playing" => ~is_paused

(* ------------------------- the position in the queue -------------------- *)
\* C37 (as claimed): whenever the queue is not empty, current_idx is an
\* index of it, 0 <= current_idx < len(queue), after every operation: an
\* input, next, previous, the automatic advance, a selection in the list, and
\* the history view switched on and off.
C37_IndexInQueue ==
  queue # <<>> => (0 <= current_idx /\ current_idx < Len(queue))

(* ------------------------- the file of a new entry ---------------------- *)
\* C38 (as claimed): when add_to_cache returns after it has registered an
\* entry, the file of that entry exists: the cleanup made for the insert does
\* not delete the file that is being inserted, also when the reference has
\* an index entry already.
C38_InsertedFileExists == Inserted => disk[ev.url].exists

(* ------------------------- the statistics ------------------------------ *)
\* C39 (as claimed): after every sequence of plays (_play_index and
\* _play_direct), those that fail and those of a track without URL included,
\* total_downloads = cache_hits + cache_misses.
C39_DownloadsAreHitsAndMisses == stats = 0
====
